---- MODULE Spec2Model ----
(***************************************************************************)
(* Model of practice/models.py: the Department/Employee, Product/          *)
(* Description and Student/Course declarations and the three module-level  *)
(* querysets employees, product_description and students.                  *)
(*                                                                         *)
(* The tables are the state.  The statements a program can run against the *)
(* module (create, delete, add/remove an association, evaluate a queryset  *)
(* and read the related objects of its rows) are the actions.  What each   *)
(* statement does is derived from the field declarations of the module:    *)
(* the keyword arguments each field is given, its on_delete rule, its      *)
(* uniqueness and the names handed to select_related / prefetch_related.   *)
(***************************************************************************)
EXTENDS Integers, FiniteSets, Sequences, TLC

(* ---- bounds of the model ---- *)
MaxDepartment == 2
MaxEmployee == 2
MaxProduct == 2
MaxDescription == 2
MaxStudent == 1
MaxCourse == 1

DepartmentIds == 1..MaxDepartment
EmployeeIds == 1..MaxEmployee
ProductIds == 1..MaxProduct
DescriptionIds == 1..MaxDescription
StudentIds == 1..MaxStudent
CourseIds == 1..MaxCourse

\* A foreign key given no object (None).
NULL == 0

(* ---- the declarations of the module ---- *)

Models == {"Department", "Employee", "Product", "Description", "Student", "Course"}

\* Employee.department declared with a rule that leaves referencing rows alone.
Employee_department_DoNothing ==
    [kind |-> "ForeignKey", model |-> "Employee", name |-> "department",
     to |-> "Department", kwargs |-> {"on_delete", "related_name"},
     on_delete |-> "DO_NOTHING", related_name |-> "employees"]

\* Employee.department (line 7)
Employee_department ==
    [kind |-> "ForeignKey", model |-> "Employee", name |-> "department",
     to |-> "Department", kwargs |-> {"on_delete", "related_name"},
     on_delete |-> "CASCADE", related_name |-> "employees"]

\* Description.product declared as a plain ForeignKey.
Description_product_ForeignKey ==
    [kind |-> "ForeignKey", model |-> "Description", name |-> "product",
     to |-> "Product", kwargs |-> {"on_delete", "related_name"},
     on_delete |-> "CASCADE", related_name |-> "product"]

\* Description.product declared with a rule that leaves referencing rows alone.
Description_product_DoNothing ==
    [kind |-> "OneToOneField", model |-> "Description", name |-> "product",
     to |-> "Product", kwargs |-> {"on_delete", "related_name"},
     on_delete |-> "DO_NOTHING", related_name |-> "product"]

\* Description.product (line 15)
Description_product ==
    [kind |-> "OneToOneField", model |-> "Description", name |-> "product",
     to |-> "Product", kwargs |-> {"on_delete", "related_name"},
     on_delete |-> "CASCADE", related_name |-> "product"]

\* Course.students (line 24)
Course_students ==
    [kind |-> "ManyToManyField", model |-> "Course", name |-> "students",
     to |-> "Student", kwargs |-> {"on_delete", "related_name"},
     on_delete |-> "CASCADE", related_name |-> "students"]

RelationFields == {Employee_department, Description_product, Course_students}

\* The keyword arguments a relation field's constructor takes among those the
\* module uses: a ForeignKey and a OneToOneField take on_delete, a
\* ManyToManyField does not and raises TypeError when it is given one.
AcceptedKwargs(kind) ==
    IF kind = "ManyToManyField" THEN {"related_name"}
    ELSE {"on_delete", "related_name"}

FieldRaises(f) == ~(f.kwargs \subseteq AcceptedKwargs(f.kind))

\* The three module-level querysets (lines 9, 17, 26).  Building a queryset is
\* lazy: the names are only looked up when it is evaluated.
employees ==
    [name |-> "employees", model |-> "Employee",
     select_related |-> {"category"}, prefetch_related |-> {}]

\* Description.objects.all(): the queryset without select_related.
product_description_plain ==
    [name |-> "product_description", model |-> "Description",
     select_related |-> {}, prefetch_related |-> {}]

product_description ==
    [name |-> "product_description", model |-> "Description",
     select_related |-> {"product"}, prefetch_related |-> {}]

students ==
    [name |-> "students", model |-> "Course",
     select_related |-> {}, prefetch_related |-> {"students"}]

QuerySets == {employees, product_description, students}

\* The module's top-level statements in order: the name each binds, the names
\* it looks up, and the relation fields its class body constructs.
ModuleStatements ==
    << [binds |-> "Department", uses |-> {}, fields |-> {}],
       [binds |-> "Employee", uses |-> {"Department"}, fields |-> {Employee_department}],
       [binds |-> "employees", uses |-> {"Employee"}, fields |-> {}],
       [binds |-> "Product", uses |-> {}, fields |-> {}],
       [binds |-> "Description", uses |-> {"Product"}, fields |-> {Description_product}],
       [binds |-> "product_description", uses |-> {"Description"}, fields |-> {}],
       [binds |-> "Student", uses |-> {}, fields |-> {}],
       [binds |-> "Course", uses |-> {"Student"}, fields |-> {Course_students}],
       [binds |-> "students", uses |-> {"Course"}, fields |-> {}] >>

StatementRaises(s, bound) ==
    \/ ~(s.uses \subseteq bound)
    \/ \E f \in s.fields : FieldRaises(f)

\* Running the module top to bottom: a statement that raises ends the run and
\* binds nothing, the statements after it never run.
RECURSIVE Execute(_, _)
Execute(i, bound) ==
    IF i > Len(ModuleStatements) THEN bound
    ELSE IF StatementRaises(ModuleStatements[i], bound) THEN bound
    ELSE Execute(i + 1, bound \cup {ModuleStatements[i].binds})

\* The names the module has bound when its execution ends.
Bound == Execute(1, {})

\* What running the module raises: the TypeError of a field constructor given
\* a keyword argument it does not take.
ModuleError ==
    IF \E i \in 1..Len(ModuleStatements) :
           \E f \in ModuleStatements[i].fields : FieldRaises(f)
    THEN "TypeError" ELSE "None"

(* ---- what the field declarations mean ---- *)

\* null= is not given: the column is NOT NULL.
Nullable(f) == "null" \in f.kwargs

\* A OneToOneField is a ForeignKey with unique=True.
Unique(f) == f.kind = "OneToOneField"

\* The names select_related accepts on a model: its forward ForeignKey and
\* OneToOneField fields and the reverse accessor of a OneToOneField to it.
SingleValued(model) ==
    {f.name : f \in {g \in RelationFields :
                        g.model = model /\ g.kind \in {"ForeignKey", "OneToOneField"}}}
    \cup {f.related_name : f \in {g \in RelationFields :
                        g.to = model /\ g.kind = "OneToOneField"}}

\* The attribute read on each row of a queryset's result: the relation field
\* its model declares.
Accessor(model) ==
    IF model = "Employee" THEN Employee_department.name
    ELSE IF model = "Description" THEN Description_product.name
    ELSE Course_students.name

(* ---- state ---- *)

VARIABLES
    Department_objects,   \* primary keys of the Department rows
    Employee_objects,     \* Employee primary key -> department_id
    Product_objects,      \* primary keys of the Product rows
    Description_objects,  \* Description primary key -> product_id
    Student_objects,      \* primary keys of the Student rows
    Course_objects,       \* primary keys of the Course rows
    through,              \* rows <<course_id, student_id>> of Course.students
    pc,                   \* "ready" for a statement, "reading" a result, "returned"
    stmt,                 \* the last statement run
    err,                  \* the exception it raised, or "None"
    deleted,              \* delete()'s return value: rows deleted per model
    queries,              \* database queries issued by the last statement
    rows,                 \* result rows whose related objects are still to be read
    cached,               \* relation names loaded with the rows
    related               \* row -> the related object(s) the program obtained

tables == <<Department_objects, Employee_objects, Product_objects,
            Description_objects, Student_objects, Course_objects, through>>

vars == <<Department_objects, Employee_objects, Product_objects,
          Description_objects, Student_objects, Course_objects, through,
          pc, stmt, err, deleted, queries, rows, cached, related>>

\* The labels of delete()'s per-model counts: the models and the automatic
\* through table of Course.students.
Labels == Models \cup {"Course_students"}

NoDeleted == [m \in Labels |-> 0]

Min(S) == CHOOSE x \in S : \A y \in S : x <= y

\* Only the first row of table t that references pk.
ReferrersOne(t, pk) ==
    IF \E r \in DOMAIN t : t[r] = pk THEN {Min({r \in DOMAIN t : t[r] = pk})} ELSE {}

\* The rows of table t that reference pk.
Referrers(t, pk) == {r \in DOMAIN t : t[r] = pk}

\* Table t without the rows S.
Remove(t, S) == [r \in DOMAIN t \ S |-> t[r]]

\* Table t with one more row.
Insert(t, pk, ref) == [r \in DOMAIN t \cup {pk} |-> IF r = pk THEN ref ELSE t[r]]

\* A cascade that takes every row of the referencing table.
CascadeAll(f, t, pk) == IF f.on_delete = "CASCADE" THEN DOMAIN t ELSE {}

\* The rows deleted along with object pk of f.to: on_delete=CASCADE deletes
\* the rows of f.model that reference it.
Cascade(f, t, pk) == IF f.on_delete = "CASCADE" THEN Referrers(t, pk) ELSE {}

\* The students of course c, as course.students.all() loads them.
LazyStudents(c) == {p[2] : p \in {q \in through : q[1] = c}}

\* The module has just been run: the tables are empty, stmt records the
\* import and err what it raised.
Init ==
    /\ Department_objects = {}
    /\ Employee_objects = <<>>
    /\ Product_objects = {}
    /\ Description_objects = <<>>
    /\ Student_objects = {}
    /\ Course_objects = {}
    /\ through = {}
    /\ pc = "returned"
    /\ stmt = "import"
    /\ err = ModuleError
    /\ deleted = NoDeleted
    /\ queries = 0
    /\ rows = {}
    /\ cached = {}
    /\ related = <<>>

\* A statement that completes without evaluating a queryset.
Done(s, e, del) ==
    /\ pc' = "returned"
    /\ stmt' = s
    /\ err' = e
    /\ deleted' = del
    /\ queries' = 0
    /\ rows' = {}
    /\ cached' = {}
    /\ related' = <<>>

\* A statement that raises leaves the tables as they are.
Raise(s, e) == Done(s, e, NoDeleted) /\ UNCHANGED tables

(* ---- Department / Employee (lines 3-7) ---- *)

\* Department.objects.create(...)
CreateDepartment ==
    /\ pc = "ready"
    /\ DepartmentIds \ Department_objects # {}
    /\ IF "Department" \notin Bound THEN Raise("Department.create", "NameError")
       ELSE /\ Department_objects' = Department_objects \cup
                                        {Min(DepartmentIds \ Department_objects)}
            /\ Done("Department.create", "None", NoDeleted)
            /\ UNCHANGED <<Employee_objects, Product_objects, Description_objects,
                           Student_objects, Course_objects, through>>

\* Employee.objects.create(department_id=d): d is None, or any key.
CreateEmployee(d) ==
    /\ pc = "ready"
    /\ EmployeeIds \ DOMAIN Employee_objects # {}
    /\ IF "Employee" \notin Bound THEN Raise("Employee.create", "NameError")
       ELSE IF (d = NULL /\ ~Nullable(Employee_department))
               \/ (d # NULL /\ d \notin Department_objects)
       THEN Raise("Employee.create", "IntegrityError")
       ELSE /\ Employee_objects' =
                   Insert(Employee_objects, Min(EmployeeIds \ DOMAIN Employee_objects), d)
            /\ Done("Employee.create", "None", NoDeleted)
            /\ UNCHANGED <<Department_objects, Product_objects, Description_objects,
                           Student_objects, Course_objects, through>>

\* Department.objects.get(pk=d).delete()
DeleteDepartment(d) ==
    /\ pc = "ready"
    /\ d \in Department_objects
    /\ LET gone == Cascade(Employee_department, Employee_objects, d) IN
       /\ Department_objects' = Department_objects \ {d}
       /\ Employee_objects' = Remove(Employee_objects, gone)
       /\ Done("Department.delete", "None",
               [NoDeleted EXCEPT !["Department"] = 1, !["Employee"] = Cardinality(gone)])
    /\ UNCHANGED <<Product_objects, Description_objects,
                   Student_objects, Course_objects, through>>

\* Employee.objects.get(pk=e).delete()
DeleteEmployee(e) ==
    /\ pc = "ready"
    /\ e \in DOMAIN Employee_objects
    /\ Employee_objects' = Remove(Employee_objects, {e})
    /\ Done("Employee.delete", "None", [NoDeleted EXCEPT !["Employee"] = 1])
    /\ UNCHANGED <<Department_objects, Product_objects, Description_objects,
                   Student_objects, Course_objects, through>>

(* ---- Product / Description (lines 11-15) ---- *)

\* Product.objects.create(...)
CreateProduct ==
    /\ pc = "ready"
    /\ ProductIds \ Product_objects # {}
    /\ IF "Product" \notin Bound THEN Raise("Product.create", "NameError")
       ELSE /\ Product_objects' = Product_objects \cup {Min(ProductIds \ Product_objects)}
            /\ Done("Product.create", "None", NoDeleted)
            /\ UNCHANGED <<Department_objects, Employee_objects, Description_objects,
                           Student_objects, Course_objects, through>>

\* Description.objects.create(product_id=p): p is None, or any key.  The
\* column is NOT NULL, references Product and is unique.
CreateDescription(p) ==
    /\ pc = "ready"
    /\ DescriptionIds \ DOMAIN Description_objects # {}
    /\ IF "Description" \notin Bound THEN Raise("Description.create", "NameError")
       ELSE IF \/ (p = NULL /\ ~Nullable(Description_product))
               \/ (p # NULL /\ p \notin Product_objects)
               \/ (Unique(Description_product) /\ Referrers(Description_objects, p) # {})
       THEN Raise("Description.create", "IntegrityError")
       ELSE /\ Description_objects' =
                   Insert(Description_objects,
                          Min(DescriptionIds \ DOMAIN Description_objects), p)
            /\ Done("Description.create", "None", NoDeleted)
            /\ UNCHANGED <<Department_objects, Employee_objects, Product_objects,
                           Student_objects, Course_objects, through>>

\* Product.objects.get(pk=p).delete()
DeleteProduct(p) ==
    /\ pc = "ready"
    /\ p \in Product_objects
    /\ LET gone == Cascade(Description_product, Description_objects, p) IN
       /\ Product_objects' = Product_objects \ {p}
       /\ Description_objects' = Remove(Description_objects, gone)
       /\ Done("Product.delete", "None",
               [NoDeleted EXCEPT !["Product"] = 1, !["Description"] = Cardinality(gone)])
    /\ UNCHANGED <<Department_objects, Employee_objects,
                   Student_objects, Course_objects, through>>

\* Description.objects.get(pk=x).delete(): on_delete is a rule of the side
\* that holds the key; nothing references a Description.
DeleteDescription(x) ==
    /\ pc = "ready"
    /\ x \in DOMAIN Description_objects
    /\ Description_objects' = Remove(Description_objects, {x})
    /\ Done("Description.delete", "None", [NoDeleted EXCEPT !["Description"] = 1])
    /\ UNCHANGED <<Department_objects, Employee_objects, Product_objects,
                   Student_objects, Course_objects, through>>

(* ---- Student / Course (lines 20-24) ---- *)

\* Student.objects.create(...)
CreateStudent ==
    /\ pc = "ready"
    /\ StudentIds \ Student_objects # {}
    /\ IF "Student" \notin Bound THEN Raise("Student.create", "NameError")
       ELSE /\ Student_objects' = Student_objects \cup {Min(StudentIds \ Student_objects)}
            /\ Done("Student.create", "None", NoDeleted)
            /\ UNCHANGED <<Department_objects, Employee_objects, Product_objects,
                           Description_objects, Course_objects, through>>

\* Student.objects.get(pk=s).delete(): the through rows of s go with it.
DeleteStudent(s) ==
    /\ pc = "ready"
    /\ s \in Student_objects
    /\ LET gone == {q \in through : q[2] = s} IN
       /\ Student_objects' = Student_objects \ {s}
       /\ through' = through \ gone
       /\ Done("Student.delete", "None",
               [NoDeleted EXCEPT !["Student"] = 1, !["Course_students"] = Cardinality(gone)])
    /\ UNCHANGED <<Department_objects, Employee_objects, Product_objects,
                   Description_objects, Course_objects>>

\* Course.objects.create(...)
CreateCourse ==
    /\ pc = "ready"
    /\ CourseIds \ Course_objects # {}
    /\ IF "Course" \notin Bound THEN Raise("Course.create", "NameError")
       ELSE /\ Course_objects' = Course_objects \cup {Min(CourseIds \ Course_objects)}
            /\ Done("Course.create", "None", NoDeleted)
            /\ UNCHANGED <<Department_objects, Employee_objects, Product_objects,
                           Description_objects, Student_objects, through>>

\* Course.objects.get(pk=c).delete(): the through rows of c go with it.
DeleteCourse(c) ==
    /\ pc = "ready"
    /\ IF "Course" \notin Bound THEN Raise("Course.delete", "NameError")
       ELSE /\ c \in Course_objects
            /\ LET gone == {q \in through : q[1] = c} IN
               /\ Course_objects' = Course_objects \ {c}
               /\ through' = through \ gone
               /\ Done("Course.delete", "None",
                       [NoDeleted EXCEPT !["Course"] = 1,
                                         !["Course_students"] = Cardinality(gone)])
            /\ UNCHANGED <<Department_objects, Employee_objects, Product_objects,
                           Description_objects, Student_objects>>

\* Course.objects.get(pk=c).students.add(s): a pairing already there is
\* not inserted again.
AddStudent(c, s) ==
    /\ pc = "ready"
    /\ IF "Course" \notin Bound THEN Raise("Course.students.add", "NameError")
       ELSE /\ c \in Course_objects
            /\ s \in Student_objects
            /\ through' = IF <<c, s>> \in through THEN through
                          ELSE through \cup {<<c, s>>}
            /\ Done("Course.students.add", "None", NoDeleted)
            /\ UNCHANGED <<Department_objects, Employee_objects, Product_objects,
                           Description_objects, Student_objects, Course_objects>>

\* Course.objects.get(pk=c).students.remove(s)
RemoveStudent(c, s) ==
    /\ pc = "ready"
    /\ IF "Course" \notin Bound THEN Raise("Course.students.remove", "NameError")
       ELSE /\ c \in Course_objects
            /\ s \in Student_objects
            /\ through' = through \ {<<c, s>>}
            /\ Done("Course.students.remove", "None", NoDeleted)
            /\ UNCHANGED <<Department_objects, Employee_objects, Product_objects,
                           Description_objects, Student_objects, Course_objects>>

(* ---- the querysets (lines 9, 17, 26) ---- *)

\* The primary keys of a model's rows.
Pks(model) ==
    IF model = "Employee" THEN DOMAIN Employee_objects
    ELSE IF model = "Description" THEN DOMAIN Description_objects
    ELSE Course_objects

\* What row r's relation holds in the database.
RelatedValue(model, r) ==
    IF model = "Employee" THEN Employee_objects[r]
    ELSE IF model = "Description" THEN Description_objects[r]
    ELSE LazyStudents(r)

QuerySetNamed(n) == CHOOSE q \in QuerySets : q.name = n

\* The database queries evaluating q issues: the main query, which joins the
\* select_related tables, and one batched query per prefetch_related name
\* when there are rows to prefetch for.
EvaluateQueries(q, result) ==
    1 + (IF result = {} THEN 0 ELSE Cardinality(q.prefetch_related))

\* list(q): evaluating the queryset.  An unbound name raises NameError; a
\* select_related name that is no single-valued relation of the model raises
\* FieldError when the query is compiled, before anything is sent.
Evaluate(q) ==
    /\ pc = "ready"
    /\ IF q.name \notin Bound THEN Raise(q.name, "NameError")
       ELSE IF ~(q.select_related \subseteq SingleValued(q.model))
       THEN Raise(q.name, "FieldError")
       ELSE LET result == Pks(q.model)
                loaded == q.select_related \cup q.prefetch_related
            IN /\ stmt' = q.name
               /\ err' = "None"
               /\ deleted' = NoDeleted
               /\ queries' = EvaluateQueries(q, result)
               /\ rows' = result
               /\ cached' = loaded
               /\ related' = IF Accessor(q.model) \in loaded
                             THEN [r \in result |-> RelatedValue(q.model, r)]
                             ELSE <<>>
               /\ pc' = IF result = {} THEN "returned" ELSE "reading"
               /\ UNCHANGED tables

EvaluateEmployees == Evaluate(employees)

EvaluateProductDescription == Evaluate(product_description)

EvaluateStudents == Evaluate(students)

\* Reading the relation of the next row of the result (row.department,
\* row.product, row.students.all()): a relation loaded with the rows is
\* served from the row's cache, any other is fetched with one more query.
ReadRelated ==
    /\ pc = "reading"
    /\ rows # {}
    /\ LET r == Min(rows)
           model == QuerySetNamed(stmt).model
       IN /\ IF Accessor(model) \in cached
             THEN UNCHANGED <<queries, related>>
             ELSE /\ queries' = queries + 1
                  /\ related' = Insert(related, r, RelatedValue(model, r))
          /\ rows' = rows \ {r}
          /\ pc' = IF rows \ {r} = {} THEN "returned" ELSE "reading"
    /\ UNCHANGED <<stmt, err, deleted, cached>>
    /\ UNCHANGED tables

\* The program goes on to its next statement: the outcome of the last one is
\* dropped.
Continue ==
    /\ pc = "returned"
    /\ pc' = "ready"
    /\ stmt' = "none"
    /\ err' = "None"
    /\ deleted' = NoDeleted
    /\ queries' = 0
    /\ rows' = {}
    /\ cached' = {}
    /\ related' = <<>>
    /\ UNCHANGED tables

Next ==
    \/ CreateDepartment
    \/ \E d \in DepartmentIds \cup {NULL} : CreateEmployee(d)
    \/ \E d \in DepartmentIds : DeleteDepartment(d)
    \/ \E e \in EmployeeIds : DeleteEmployee(e)
    \/ CreateProduct
    \/ \E p \in ProductIds \cup {NULL} : CreateDescription(p)
    \/ \E p \in ProductIds : DeleteProduct(p)
    \/ \E x \in DescriptionIds : DeleteDescription(x)
    \/ CreateStudent
    \/ \E s \in StudentIds : DeleteStudent(s)
    \/ CreateCourse
    \/ \E c \in CourseIds : DeleteCourse(c)
    \/ \E c \in CourseIds, s \in StudentIds : AddStudent(c, s)
    \/ \E c \in CourseIds, s \in StudentIds : RemoveStudent(c, s)
    \/ EvaluateEmployees
    \/ EvaluateProductDescription
    \/ EvaluateStudents
    \/ ReadRelated
    \/ Continue

Spec == Init /\ [][Next]_vars

(* ---- properties ---- *)

\* The last statement was the evaluation of queryset n and the reading of
\* the relation of every row it returned, and it has ended.
Finished(n) == pc = "returned" /\ stmt = n

\* C1: in every reachable state every Employee references exactly one
\* Department, which is not null and exists.
C1_EmployeeHasOneDepartment ==
    \A e \in DOMAIN Employee_objects :
        /\ Employee_objects[e] # NULL
        /\ Cardinality({d \in Department_objects : d = Employee_objects[e]}) = 1

\* A Department was deleted together with its Employees, and an Employee of
\* another Department is still there.
C1_Witness ==
    /\ stmt = "Department.delete"
    /\ deleted["Employee"] >= 1
    /\ DOMAIN Employee_objects # {}

\* C2: a step that deletes Department d leaves no Employee whose department
\* was d, however many there were.
C2_DeleteDepartmentRemovesEmployees ==
    [][\A d \in Department_objects :
          d \notin Department_objects' =>
              \A e \in DOMAIN Employee_objects :
                  Employee_objects[e] = d => e \notin DOMAIN Employee_objects']_vars

\* A Department with two Employees was deleted.
C2_Witness ==
    /\ stmt = "Department.delete"
    /\ deleted["Employee"] >= 2

\* C3 as stated: every Product is referenced by exactly one Description and
\* every Description references exactly one existing Product.
C3_ExactlyOneDescriptionPerProduct ==
    /\ \A p \in Product_objects :
           Cardinality(Referrers(Description_objects, p)) = 1
    /\ \A x \in DOMAIN Description_objects :
           Cardinality({p \in Product_objects : p = Description_objects[x]}) = 1

\* C3 amended: every Product is referenced by at most one Description and
\* every Description references exactly one existing Product.
C3_AtMostOneDescriptionPerProduct ==
    /\ \A p \in Product_objects :
           Cardinality(Referrers(Description_objects, p)) <= 1
    /\ \A x \in DOMAIN Description_objects :
           /\ Description_objects[x] # NULL
           /\ Cardinality({p \in Product_objects : p = Description_objects[x]}) = 1

\* A second Description for a Product that has one was refused, and a
\* Product without a Description exists.
C3_Witness ==
    /\ stmt = "Description.create"
    /\ err = "IntegrityError"
    /\ \E p \in Product_objects : Referrers(Description_objects, p) # {}
    /\ \E p \in Product_objects : Referrers(Description_objects, p) = {}

\* C4 as stated: a step that deletes a Product deletes the Description that
\* references it, and a step that deletes a Description deletes the Product
\* it references.
C4_DeleteCascadesBothWays ==
    [][/\ \A p \in Product_objects :
              p \notin Product_objects' =>
                  \A x \in Referrers(Description_objects, p) :
                      x \notin DOMAIN Description_objects'
       /\ \A x \in DOMAIN Description_objects :
              x \notin DOMAIN Description_objects' =>
                  Description_objects[x] \notin Product_objects']_vars

\* C4 amended: a step that deletes a Product deletes the Description that
\* references it; deleting a Description leaves every Product in place.
C4_DeleteCascadesFromProduct ==
    [][/\ \A p \in Product_objects :
              p \notin Product_objects' =>
                  \A x \in Referrers(Description_objects, p) :
                      x \notin DOMAIN Description_objects'
       /\ stmt' = "Description.delete" => Product_objects' = Product_objects]_vars

\* A Product was deleted together with its Description.
C4_Witness ==
    /\ stmt = "Product.delete"
    /\ deleted["Description"] = 1

\* C5: when the students queryset has been evaluated and every Course's
\* students read, each Course's prefetched students are the set that
\* course.students.all() loads.
C5_PrefetchEqualsLazy ==
    Finished("students") =>
        /\ err = "None"
        /\ \A c \in Course_objects :
               c \in DOMAIN related /\ related[c] = LazyStudents(c)

\* C6: when the employees queryset has been evaluated and .department read
\* on each of the N Employees, every Employee was returned with its
\* Department and exactly one query was issued.
C6_EmployeesOneQuery ==
    Finished("employees") =>
        /\ err = "None"
        /\ queries = 1
        /\ related = Employee_objects

\* C7: when the students queryset has been evaluated and every Course's
\* students read, the statement completed with at most two queries.
C7_StudentsAtMostTwoQueries ==
    Finished("students") =>
        /\ err = "None"
        /\ queries <= 2

\* C8: when the product_description queryset has been evaluated and .product
\* read on each Description, exactly one query was issued and every
\* Description is paired with the Product it references.
C8_ProductDescriptionOneQuery ==
    Finished("product_description") =>
        /\ err = "None"
        /\ queries = 1
        /\ related = Description_objects

\* The queryset was evaluated over two Descriptions and both were read.
C8_Witness ==
    /\ Finished("product_description")
    /\ Cardinality(DOMAIN related) = 2
    /\ Cardinality(DOMAIN Description_objects) = 2

\* C9: every pairing refers to an existing Course and an existing Student,
\* and a Course with no Students is a permitted state: creating a Course
\* succeeds and the Course is there with no Students.
C9_PairingsAndEmptyCourse ==
    /\ \A q \in through : q[1] \in Course_objects /\ q[2] \in Student_objects
    /\ stmt = "Course.create" =>
           /\ err = "None"
           /\ \E c \in Course_objects : LazyStudents(c) = {}

\* C10: a step that deletes Department d removes d and the Employees that
\* referenced it, and changes no other row of any table.
C10_DeleteDepartmentFrame ==
    [][\A d \in Department_objects :
          d \notin Department_objects' =>
              /\ Department_objects' = Department_objects \ {d}
              /\ DOMAIN Employee_objects' =
                     {e \in DOMAIN Employee_objects : Employee_objects[e] # d}
              /\ \A e \in DOMAIN Employee_objects' :
                     Employee_objects'[e] = Employee_objects[e]
              /\ UNCHANGED <<Product_objects, Description_objects,
                             Student_objects, Course_objects, through>>]_vars

\* A Department was deleted with an Employee while another Department, an
\* Employee of it, a Product, a Description and a Student existed.
C10_Witness ==
    /\ stmt = "Department.delete"
    /\ deleted["Employee"] >= 1
    /\ Department_objects # {}
    /\ DOMAIN Employee_objects # {}
    /\ Product_objects # {}
    /\ DOMAIN Description_objects # {}
    /\ Student_objects # {}

====
